---- MODULE Spec2Model ----
(***************************************************************************)
(* Model of the nnUNet preprocessing scripts:                              *)
(*   Scripts/extract_preprocessing_params.py  (the Configuration Resolver) *)
(*   Scripts/generate_fixtures.py             (the per-stage pipeline and  *)
(*                                             the fixture bundle writer)  *)
(*                                                                         *)
(* Numbers.  Intensities and the four channel statistics are integers in   *)
(* one fixed-point unit, chosen so that the divisor floor 1e-8 of the      *)
(* normalizer is exactly one unit (StdFloor).  A sample is a fraction      *)
(* [num, den]; raw samples have den = 1, normalized samples carry the      *)
(* divisor max(std, 1e-8) as den, so no rounding is introduced by the      *)
(* model.  Spacings are positive integers in one length unit; the resample *)
(* scale current/target is kept as a fraction and rounded as numpy rounds. *)
(* JSON objects are functions whose domain is the set of keys present.     *)
(***************************************************************************)
EXTENDS Integers, Sequences, FiniteSets, TLC

\* ------------------------------------------------------------------ bounds
\* The longest axis of an input volume.
MaxDim == 2
\* The largest number of nonzero samples in an enumerated input volume.
MaxNonzero == 2

\* --------------------------------------------------------------- constants
\* max(std, 1e-8): the floor of the divisor, one fixed-point unit.
StdFloor == 1

\* ------------------------------------------------------------ python dicts
Axes == 0..2

\* A Python list / numpy vector of three components, indexed from 0.
Vec(a, b, c) == [i \in Axes |-> IF i = 0 THEN a ELSE IF i = 1 THEN b ELSE c]

\* d.get(k, default)
Get(d, k, default) == IF k \in DOMAIN d THEN d[k] ELSE default

\* The empty dict {}.
EmptyDict == [k \in {} |-> 0]

\* A float sample with an integral value.
Smp(v) == [num |-> v, den |-> 1]

\* ------------------------------------------------------------------ arrays
\* The index tuples of an array of shape s.
Idx(s) == { Vec(i, j, k) : i \in 0..(s[0] - 1), j \in 0..(s[1] - 1), k \in 0..(s[2] - 1) }

\* The inverse image of base axis b under the view's axis map.
AxisOf(axes, b) == CHOOSE k \in Axes : axes[k] = b

\* An ndarray is a view [buf, shape, axes] of a buffer of the heap h: view
\* axis k runs along buffer axis axes[k].  At is the element at view index i.
At(h, arr, i) == h[arr.buf][[b \in Axes |-> i[AxisOf(arr.axes, b)]]]

\* The array's contents, independent of where they are stored.
Dense(h, arr) == [shape |-> arr.shape, data |-> [i \in Idx(arr.shape) |-> At(h, arr, i)]]

\* A freshly allocated C-contiguous array holding data d of shape s.
NewArray(h, s) == [buf |-> Len(h) + 1, shape |-> s, axes |-> Vec(0, 1, 2)]

IsPermutation(p) == DOMAIN p = Axes /\ { p[k] : k \in Axes } = Axes

\* np.transpose(a, axes): a view of the same buffer with the axes permuted.
NpTranspose(arr, axes) ==
    [arr EXCEPT !.shape = [k \in Axes |-> arr.shape[axes[k]]],
                !.axes  = [k \in Axes |-> arr.axes[axes[k]]]]

\* Mutant of TakeSpacing: the spacing is scattered to, not gathered from, the
\* permuted positions.
TakeSpacingScattered(spacing, axes) == [k \in Axes |-> spacing[AxisOf(axes, k)]]

\* spacing[transpose_forward]: numpy index-array selection.
TakeSpacing(spacing, axes) == [k \in Axes |-> spacing[axes[k]]]

\* ----------------------------------------------------------- foreground crop
\* Mutant of NonzeroMask: foreground taken as the positive samples.
NonzeroMaskPositive(d) == { i \in Idx(d.shape) : d.data[i].num > 0 }

\* nonzero_mask = current != 0
NonzeroMask(d) == { i \in Idx(d.shape) : d.data[i].num # 0 }

\* np.where(nonzero_mask.any(axis = all axes but `axis`))[0]
AxisIndices(mask, axis) == { i[axis] : i \in mask }

SetMin(S) == CHOOSE x \in S : \A y \in S : x <= y
SetMax(S) == CHOOSE x \in S : \A y \in S : x >= y

\* The bounding box: one (first, last + 1) pair per axis.
CropBBox(d) ==
    LET mask == NonzeroMask(d) IN
    IF mask # {}
    THEN [a \in Axes |->
            LET indices == AxisIndices(mask, a) IN
            IF indices # {}
            THEN <<SetMin(indices), SetMax(indices) + 1>>
            ELSE <<0, d.shape[a]>>]
    ELSE [a \in Axes |-> <<0, d.shape[a]>>]

\* current[slices]: the contents restricted to the box.
CropSlice(d, bbox) ==
    LET s == [a \in Axes |-> bbox[a][2] - bbox[a][1]] IN
    [shape |-> s,
     data  |-> [i \in Idx(s) |-> d.data[[a \in Axes |-> i[a] + bbox[a][1]]]]]

\* ------------------------------------------------------------ normalization
\* "CTNormalization" in schemes (schemes is a list)
InList(x, list) == \E n \in 1..Len(list) : list[n] = x

\* np.clip(x, lower, upper) on one sample: np.minimum(np.maximum(x, lower), upper)
NpClip(x, lower, upper) ==
    LET m == IF x.num < lower * x.den THEN Smp(lower) ELSE x IN
    IF m.num > upper * m.den THEN Smp(upper) ELSE m

Max2(a, b) == IF a >= b THEN a ELSE b

\* Mutant of ZScore: the divisor is std itself, without the floor.
ZScoreNoFloor(x, mean, std) == [num |-> x.num - mean * x.den, den |-> x.den * std]

\* (x - mean) / max(std, 1e-8) on one sample
ZScore(x, mean, std) ==
    [num |-> x.num - mean * x.den, den |-> x.den * Max2(std, StdFloor)]

\* The two array expressions of the CT branch, sample by sample:
\*   current = np.clip(current, lower, upper)
\*   current = (current - mean) / max(std, 1e-8)
CTNormalize(x, props) ==
    ZScore(NpClip(x, props["percentile_00_5"], props["percentile_99_5"]),
           props["mean"], props["std"])

\* Order of two samples (denominators are positive).
SmpLeq(x, y) == x.num * y.den <= y.num * x.den

\* np.min / np.max of an array's samples
NpMin(d) == CHOOSE x \in { d.data[i] : i \in Idx(d.shape) } :
                \A i \in Idx(d.shape) : SmpLeq(x, d.data[i])
NpMax(d) == CHOOSE x \in { d.data[i] : i \in Idx(d.shape) } :
                \A i \in Idx(d.shape) : SmpLeq(d.data[i], x)

\* ---------------------------------------------------------------- resample
\* Mutant of NpRound: ties rounded up, floor(x + 0.5).
NpRoundHalfUp(p, q) == (2 * p + q) \div (2 * q)

\* np.round of the fraction p / q (q > 0): round half to even.
NpRound(p, q) ==
    LET f == p \div q
        r == p % q
    IN  IF 2 * r < q THEN f
        ELSE IF 2 * r > q THEN f + 1
        ELSE IF f % 2 = 0 THEN f ELSE f + 1

\* scale_factors = current_spacing / target_spacing
\* target_shape  = np.round(np.array(current.shape) * scale_factors).astype(int)
TargetShape(shape, current_spacing, target_spacing) ==
    [a \in Axes |-> NpRound(shape[a] * current_spacing[a], target_spacing[a])]

\* The interpolation orders the resampler supports (0 nearest, 1 linear,
\* 3 cubic spline).
SupportedOrders == {0, 1, 3}

\* resample_data_or_seg_to_shape(data, new_shape, current_spacing, new_spacing,
\* **kwargs), of nnunetv2.preprocessing.resampling.default_resampling: the
\* error it ends with, or "" when it returns an array of shape new_shape.
ResampleError(new_shape, kwargs) ==
    IF \E a \in Axes : new_shape[a] <= 0 THEN "DegenerateResampleTarget"
    ELSE IF "order" \in DOMAIN kwargs /\ kwargs["order"] \notin SupportedOrders
         THEN "UnsupportedInterpolationOrder"
    ELSE IF "order_z" \in DOMAIN kwargs /\ kwargs["order_z"] \notin SupportedOrders
         THEN "UnsupportedInterpolationOrder"
    ELSE ""

\* The resampled contents.  Only the shape is fixed by the contract; each
\* output sample is represented by the input sample nearest below it.
ResampleData(d, new_shape) ==
    [shape |-> new_shape,
     data  |-> [i \in Idx(new_shape) |->
                  d.data[[a \in Axes |-> (i[a] * d.shape[a]) \div new_shape[a]]]]]

\* ---------------------------------------------------------------- checksum
\* array.astype(np.float32): a new C-contiguous float32 array.  Every array
\* the pipeline holds is float32 already (the input is cast on load, and
\* float32 arithmetic with Python scalars stays float32), so the cast copies
\* the samples and fixes the dtype.
AsFloat32(d) == [dtype |-> "float32", shape |-> d.shape, data |-> d.data]

\* array.tobytes(): the samples in C order, without the shape.
ToBytes(a) ==
    LET s == a.shape
        n == s[0] * s[1] * s[2]
    IN  [m \in 1..n |->
            a.data[Vec((m - 1) \div (s[1] * s[2]),
                       ((m - 1) \div s[2]) % s[1],
                       (m - 1) % s[2])]]

\* hashlib.md5(array.tobytes()).hexdigest(): a digest of the bytes alone,
\* represented by the byte sequence it digests.
compute_checksum(a) == [md5 |-> ToBytes(a)]

\* ------------------------------------------------------------------- state
VARIABLES
    cmd,                \* the entry point main() dispatches to
    plans,              \* the plan document (--plans-json), as loaded
    fingerprint,        \* the fingerprint document (--dataset-fingerprint)
    params,             \* the parameter document (--params-json)
    configuration,      \* the requested configuration name
    nifti,              \* the input volume: its samples and its zooms
    pc,                 \* the position reached in the running function
    error,              \* the exception the run ended with
    heap,               \* the array buffers allocated so far
    current,            \* the local `current`: the array being processed
    spacing,            \* the local `spacing` / `raw_spacing`
    transposed_spacing, \* the local `transposed_spacing`
    config,             \* the local `config`
    stages,             \* the local `stages`: name -> array, in insertion order
    metadata,           \* the local `metadata`
    checksums,          \* the local `checksums`
    files,              \* the output directory: file name -> contents
    result,             \* the value returned to the caller
    captured            \* history: each snapshot's contents when it was captured

inputs == <<cmd, plans, fingerprint, params, configuration, nifti>>
locals == <<heap, current, spacing, transposed_spacing, config, stages, metadata, captured>>
outputs == <<checksums, files, result>>
vars == <<inputs, pc, error, locals, outputs>>

NoError == [type |-> "", what |-> "", names |-> {}, available |-> {}]
NoArray == [buf |-> 0, shape |-> Vec(0, 0, 0), axes |-> Vec(0, 1, 2)]

\* An exception leaves the function: nothing else changes, the process exits.
Raise(type, what, names, available) ==
    /\ pc' = "failed"
    /\ error' = [type |-> type, what |-> what, names |-> names, available |-> available]

\* The first key of the chain of subscripts that is absent (a KeyError), or "".
FirstMissing(d, keys) ==
    IF \A n \in 1..Len(keys) : keys[n] \in DOMAIN d THEN ""
    ELSE keys[CHOOSE n \in 1..Len(keys) :
                 /\ keys[n] \notin DOMAIN d
                 /\ \A m \in 1..(n - 1) : keys[m] \in DOMAIN d]

\* stages[name] = current, with the history of what was captured.
Capture(name, h, arr) ==
    /\ stages' = Append(stages, [name |-> name, array |-> arr])
    /\ captured' = Append(captured, Dense(h, arr))

\* ------------------------------------------------------- the pipeline stages
\* Stage 1: current = raw_data.copy(); stages["01_raw"] = current
StageRaw(raw_data, raw_spacing, input_file, configuration_name) ==
    /\ heap' = <<raw_data.data, raw_data.data>>
    /\ current' = [buf |-> 2, shape |-> raw_data.shape, axes |-> Vec(0, 1, 2)]
    /\ spacing' = raw_spacing
    /\ Capture("01_raw", heap', current')
    /\ metadata' = [input_file |-> input_file,
                    configuration |-> configuration_name,
                    stages |-> ("01_raw" :> [shape |-> raw_data.shape,
                                             spacing |-> raw_spacing,
                                             dtype |-> "float32"])]
    /\ UNCHANGED <<transposed_spacing>>

\* The transpose of a volume: the array's axes and the spacing vector, both
\* reordered by the same permutation.
TransposeVolume(arr, sp, axes) ==
    [array |-> NpTranspose(arr, axes), spacing |-> TakeSpacing(sp, axes)]

\* Stage 2: np.transpose and spacing[transpose_forward]
StageTranspose(transpose_forward) ==
    /\ current' = TransposeVolume(current, spacing, transpose_forward).array
    /\ transposed_spacing' = TransposeVolume(current, spacing, transpose_forward).spacing
    /\ Capture("02_transposed", heap, current')
    /\ metadata' = [metadata EXCEPT !.stages = @ @@
            ("02_transposed" :> [shape |-> current'.shape,
                                 spacing |-> transposed_spacing',
                                 transpose_axes |-> transpose_forward])]
    /\ UNCHANGED <<heap, spacing>>

\* Stage 3: crop to the bounding box of the nonzero samples
StageCrop ==
    LET d == Dense(heap, current)
        bbox_list == CropBBox(d)
    IN  /\ IF NonzeroMask(d) # {}
           THEN /\ heap' = Append(heap, CropSlice(d, bbox_list).data)
                /\ current' = NewArray(heap, CropSlice(d, bbox_list).shape)
           ELSE UNCHANGED <<heap, current>>
        /\ Capture("03_cropped", heap', current')
        /\ metadata' = [metadata EXCEPT !.stages = @ @@
                ("03_cropped" :> [shape |-> current'.shape, bbox |-> bbox_list])]
        /\ UNCHANGED <<spacing, transposed_spacing>>

\* Mutant of StageNormalize: the CT branch writes into the array it is given
\* (np.clip(..., out=current), current -= mean, current /= ...).
StageNormalizeInPlace(ct_selected, props) ==
    /\ IF ct_selected
       THEN heap' = [heap EXCEPT ![current.buf] =
                        [b \in DOMAIN heap[current.buf] |-> CTNormalize(heap[current.buf][b], props)]]
       ELSE UNCHANGED heap
    /\ UNCHANGED current
    /\ Capture("04_normalized", heap', current')
    /\ metadata' = [metadata EXCEPT !.stages = @ @@
            ("04_normalized" :> [shape |-> current'.shape,
                                 spacing |-> transposed_spacing,
                                 min |-> NpMin(Dense(heap', current')),
                                 max |-> NpMax(Dense(heap', current'))])]
    /\ UNCHANGED <<spacing, transposed_spacing>>

\* Stage 4: the CT branch (when selected, with the statistics props), then
\* the snapshot and its summary.  np.clip and the arithmetic each return a
\* new array; only the final one stays referenced.  Of the summary, min and
\* max are kept; mean and std (a square root) are floats nothing reads back.
StageNormalize(ct_selected, props) ==
    LET d == Dense(heap, current) IN
    /\ IF ct_selected
       THEN /\ heap' = Append(heap, [i \in Idx(d.shape) |-> CTNormalize(d.data[i], props)])
            /\ current' = NewArray(heap, d.shape)
       ELSE UNCHANGED <<heap, current>>
    /\ Capture("04_normalized", heap', current')
    /\ metadata' = [metadata EXCEPT !.stages = @ @@
            ("04_normalized" :> [shape |-> current'.shape,
                                 spacing |-> transposed_spacing,
                                 min |-> NpMin(Dense(heap', current')),
                                 max |-> NpMax(Dense(heap', current'))])]
    /\ UNCHANGED <<spacing, transposed_spacing>>

\* Stage 5, after a successful resample to target_shape
StageResample(target_spacing, target_shape, resample_kwargs) ==
    LET d == Dense(heap, current) IN
    /\ heap' = Append(heap, ResampleData(d, target_shape).data)
    /\ current' = NewArray(heap, target_shape)
    /\ Capture("05_resampled", heap', current')
    /\ metadata' = [metadata EXCEPT !.stages = @ @@
            ("05_resampled" :> [shape |-> target_shape,
                                target_spacing |-> target_spacing,
                                original_spacing |-> transposed_spacing,
                                resample_kwargs |-> resample_kwargs])]
    /\ UNCHANGED <<spacing, transposed_spacing>>

\* resample_kwargs default of both pipeline functions
DefaultDataKwargs ==
    [is_seg |-> FALSE, order |-> 3, order_z |-> 0, force_separate_z |-> "None"]

\* One iteration of `for name, array in stages.items()`: np.save of the cast
\* array, then its checksum.
SaveStage ==
    LET n == Cardinality(DOMAIN checksums) + 1
        name == stages[n].name
        array == AsFloat32(Dense(heap, stages[n].array))
    IN  /\ files' = (name :> array) @@ files
        /\ checksums' = checksums @@ (name :> compute_checksum(array))
        /\ pc' = IF n = Len(stages) THEN "metadata" ELSE "save"

\* metadata["checksums"] = checksums; json.dump(metadata); return metadata
WriteMetadata ==
    /\ metadata' = metadata @@ [checksums |-> checksums]
    /\ files' = ("fixture_metadata" :> metadata') @@ files
    /\ result' = metadata'
    /\ pc' = "done"

\* ------------------------------------------------ extract_preprocessing_params
\* "anisotropy_threshold": 3.0
AnisotropyThreshold == 3

DefaultSegKwargs ==
    [is_seg |-> TRUE, order |-> 1, order_z |-> 0, force_separate_z |-> "None"]

CTKeys == <<"mean", "std", "percentile_00_5", "percentile_99_5">>

\* The params dict built from the two documents.  The configuration's
\* spacing, patch_size and normalization_schemes are read by subscript; the
\* plan documents considered all have them.
BuildParams(pl, fp, name) ==
    LET cfg == pl["configurations"][name] IN
    [configuration_name |-> name,
     target_spacing |-> cfg["spacing"],
     patch_size |-> cfg["patch_size"],
     transpose_forward |-> Get(pl, "transpose_forward", Vec(0, 1, 2)),
     transpose_backward |-> Get(pl, "transpose_backward", Vec(0, 1, 2)),
     normalization_schemes |-> cfg["normalization_schemes"],
     use_mask_for_norm |-> Get(cfg, "use_mask_for_norm", <<FALSE>>),
     foreground_intensity_properties |->
         Get(fp, "foreground_intensity_properties_per_channel", EmptyDict),
     resampling_fn_data |->
         Get(cfg, "resampling_fn_data", "resample_data_or_seg_to_shape"),
     resampling_fn_data_kwargs |->
         Get(cfg, "resampling_fn_data_kwargs", DefaultDataKwargs),
     resampling_fn_seg |->
         Get(cfg, "resampling_fn_seg", "resample_data_or_seg_to_shape"),
     resampling_fn_seg_kwargs |->
         Get(cfg, "resampling_fn_seg_kwargs", DefaultSegKwargs),
     anisotropy_threshold |-> AnisotropyThreshold,
     original_spacing |-> Get(fp, "spacing", << >>),
     original_median_shape |->
         IF Get(fp, "shapes_after_crop", << >>) # << >>
         THEN fp["shapes_after_crop"][1] ELSE << >>]

\* missing_keys of the CT validation
MissingKeys(prm) ==
    LET channel_props == Get(prm["foreground_intensity_properties"], "0", EmptyDict)
    IN  { CTKeys[n] : n \in { m \in 1..Len(CTKeys) : CTKeys[m] \notin DOMAIN channel_props } }

\* extract_preprocessing_params(plans_path, fingerprint_path, configuration)
EX_Extract ==
    /\ cmd = "extract" /\ pc = "extract"
    /\ IF configuration \notin DOMAIN plans["configurations"]
       THEN /\ Raise("ValueError", "Configuration not found", {configuration},
                     DOMAIN plans["configurations"])
            /\ UNCHANGED result
       ELSE LET prm == BuildParams(plans, fingerprint, configuration) IN
            IF /\ InList("CTNormalization", plans["configurations"][configuration]["normalization_schemes"])
               /\ MissingKeys(prm) # {}
            THEN /\ Raise("ValueError", "Missing CT normalization parameters", MissingKeys(prm),
                          DOMAIN Get(prm["foreground_intensity_properties"], "0", EmptyDict))
                 /\ UNCHANGED result
            ELSE /\ result' = prm
                 /\ pc' = "write"
                 /\ UNCHANGED error
    /\ UNCHANGED <<inputs, locals, checksums, files>>

\* main(): json.dump(params) to --output
EX_Write ==
    /\ cmd = "extract" /\ pc = "write"
    /\ files' = ("preprocessing_params" :> result) @@ files
    /\ pc' = "done"
    /\ UNCHANGED <<inputs, error, locals, checksums, result>>

\* ------------------------------------------------------------ generate_fixtures
\* json.load of both documents and the configuration lookup
GF_Load ==
    /\ cmd = "fixtures" /\ pc = "load"
    /\ IF configuration \in DOMAIN plans["configurations"]
       THEN /\ config' = plans["configurations"][configuration]
            /\ pc' = "raw"
            /\ UNCHANGED error
       ELSE /\ Raise("KeyError", "key", {configuration}, {})
            /\ UNCHANGED config
    /\ UNCHANGED <<inputs, heap, current, spacing, transposed_spacing, stages, metadata,
                   captured, outputs>>

GF_Raw ==
    /\ cmd = "fixtures" /\ pc = "raw"
    /\ StageRaw(nifti.data, nifti.zooms, nifti.name, configuration)
    /\ pc' = "transpose"
    /\ UNCHANGED <<inputs, error, config, outputs>>

\* np.transpose raises ValueError unless the axes are a permutation.
GF_Transpose ==
    /\ cmd = "fixtures" /\ pc = "transpose"
    /\ LET transpose_forward == Get(plans, "transpose_forward", Vec(0, 1, 2)) IN
       IF IsPermutation(transpose_forward)
       THEN /\ StageTranspose(transpose_forward)
            /\ pc' = "crop"
            /\ UNCHANGED error
       ELSE /\ Raise("ValueError", "axes", {}, {})
            /\ UNCHANGED <<heap, current, spacing, transposed_spacing, stages, metadata, captured>>
    /\ UNCHANGED <<inputs, config, outputs>>

GF_Crop ==
    /\ cmd = "fixtures" /\ pc = "crop"
    /\ StageCrop
    /\ pc' = "normalize"
    /\ UNCHANGED <<inputs, error, config, outputs>>

\* The statistics are read by subscript: an absent key is a KeyError.
GF_Normalize ==
    /\ cmd = "fixtures" /\ pc = "normalize"
    /\ IF InList("CTNormalization", config["normalization_schemes"])
       THEN LET k1 == FirstMissing(fingerprint,
                          <<"foreground_intensity_properties_per_channel">>)
                per_channel == fingerprint["foreground_intensity_properties_per_channel"]
                k2 == IF k1 # "" THEN k1 ELSE FirstMissing(per_channel, <<"0">>)
                k3 == IF k2 # "" THEN k2 ELSE FirstMissing(per_channel["0"], CTKeys)
            IN  IF k3 # ""
                THEN /\ Raise("KeyError", "key", {k3}, {})
                     /\ UNCHANGED <<heap, current, spacing, transposed_spacing, stages,
                                    metadata, captured>>
                ELSE /\ StageNormalize(TRUE, per_channel["0"])
                     /\ pc' = "resample"
                     /\ UNCHANGED error
       ELSE /\ StageNormalize(FALSE, EmptyDict)
            /\ pc' = "resample"
            /\ UNCHANGED error
    /\ UNCHANGED <<inputs, config, outputs>>

\* The target shape, the resample call (which may fail) and the snapshot.
ResampleStep(target_spacing, resample_kwargs) ==
    LET target_shape == TargetShape(current.shape, transposed_spacing, target_spacing)
        failure == ResampleError(target_shape, resample_kwargs)
    IN  IF failure = ""
        THEN /\ StageResample(target_spacing, target_shape, resample_kwargs)
             /\ pc' = "save"
             /\ UNCHANGED error
        ELSE /\ Raise("ValueError", failure, {}, {})
             /\ UNCHANGED <<heap, current, spacing, transposed_spacing, stages, metadata,
                            captured>>

GF_Resample ==
    /\ cmd = "fixtures" /\ pc = "resample"
    /\ ResampleStep(config["spacing"],
                    Get(config, "resampling_fn_data_kwargs", DefaultDataKwargs))
    /\ UNCHANGED <<inputs, config, outputs>>

GF_Save ==
    /\ cmd = "fixtures" /\ pc = "save"
    /\ SaveStage
    /\ UNCHANGED <<inputs, error, locals, result>>

\* mkdir, np.save, open or json.dump fails: the OSError leaves the function.
GF_SaveFail ==
    /\ cmd = "fixtures" /\ pc \in {"save", "metadata"}
    /\ Raise("OSError", "write", {}, {})
    /\ UNCHANGED <<inputs, locals, outputs>>

GF_WriteMetadata ==
    /\ cmd = "fixtures" /\ pc = "metadata"
    /\ WriteMetadata
    /\ UNCHANGED <<inputs, error, heap, current, spacing, transposed_spacing, config, stages,
                   captured, checksums>>

\* -------------------------------------------------- generate_synthetic_fixtures
\* The synthetic volume.  The source fills a (32, 64, 64) array from a seeded
\* generator: soft tissue around 50, bone around 500, air around -1000, and
\* no sample left at 0.  The model keeps the 1:2:2 proportions and one
\* sample of each kind, in the order air < soft < bone.
SyntheticVolume ==
    [shape |-> Vec(1, 2, 2),
     data  |-> [i \in Idx(Vec(1, 2, 2)) |->
                  IF i = Vec(0, 0, 0) THEN Smp(2)
                  ELSE IF i = Vec(0, 0, 1) THEN Smp(4)
                  ELSE Smp(0 - 5)]]

\* params.get("original_spacing", [2.5, 0.7, 0.7]), in tenths
DefaultOriginalSpacing == Vec(25, 7, 7)

\* params.get("target_spacing", [1.0, 0.5, 0.5]), in tenths
DefaultTargetSpacing == Vec(10, 5, 5)

\* props.get(key, default) for the four statistics (100.5, 50.2, -1024.0 and
\* 1500.0 in the source).  The model keeps their order against the synthetic
\* samples: lower < air < soft < mean < bone < upper, std above the floor.
DefaultProps ==
    [mean |-> 3, std |-> 2, percentile_00_5 |-> 0 - 6, percentile_99_5 |-> 6]

\* json.load(params), the synthetic volume and stage 1
GS_Raw ==
    /\ cmd = "synthetic" /\ pc = "raw"
    /\ IF "configuration_name" \in DOMAIN params
       THEN /\ StageRaw(SyntheticVolume, Get(params, "original_spacing", DefaultOriginalSpacing),
                        "synthetic_volume", params["configuration_name"])
            /\ pc' = "transpose"
            /\ UNCHANGED error
       ELSE /\ Raise("KeyError", "key", {"configuration_name"}, {})
            /\ UNCHANGED <<heap, current, spacing, transposed_spacing, stages, metadata, captured>>
    /\ UNCHANGED <<inputs, config, outputs>>

\* raw_spacing[transpose_forward] raises IndexError on a spacing list that is
\* too short (extract_preprocessing_params writes [] when it is unknown).
GS_Transpose ==
    /\ cmd = "synthetic" /\ pc = "transpose"
    /\ LET transpose_forward == Get(params, "transpose_forward", Vec(0, 1, 2)) IN
       IF ~IsPermutation(transpose_forward)
       THEN /\ Raise("ValueError", "axes", {}, {})
            /\ UNCHANGED <<heap, current, spacing, transposed_spacing, stages, metadata, captured>>
       ELSE IF DOMAIN spacing # Axes
       THEN /\ Raise("IndexError", "index", {}, {})
            /\ UNCHANGED <<heap, current, spacing, transposed_spacing, stages, metadata, captured>>
       ELSE /\ StageTranspose(transpose_forward)
            /\ pc' = "crop"
            /\ UNCHANGED error
    /\ UNCHANGED <<inputs, config, outputs>>

GS_Crop ==
    /\ cmd = "synthetic" /\ pc = "crop"
    /\ StageCrop
    /\ pc' = "normalize"
    /\ UNCHANGED <<inputs, error, config, outputs>>

\* The statistics are read with .get and a default each.
GS_Normalize ==
    /\ cmd = "synthetic" /\ pc = "normalize"
    /\ IF InList("CTNormalization", Get(params, "normalization_schemes", << >>))
       THEN IF "foreground_intensity_properties" \notin DOMAIN params
            THEN /\ Raise("KeyError", "key", {"foreground_intensity_properties"}, {})
                 /\ UNCHANGED <<heap, current, spacing, transposed_spacing, stages,
                                metadata, captured>>
            ELSE LET props == Get(params["foreground_intensity_properties"], "0", EmptyDict)
                 IN  /\ StageNormalize(TRUE,
                            [k \in DOMAIN DefaultProps |-> Get(props, k, DefaultProps[k])])
                     /\ pc' = "resample"
                     /\ UNCHANGED error
       ELSE /\ StageNormalize(FALSE, EmptyDict)
            /\ pc' = "resample"
            /\ UNCHANGED error
    /\ UNCHANGED <<inputs, config, outputs>>

GS_Resample ==
    /\ cmd = "synthetic" /\ pc = "resample"
    /\ ResampleStep(Get(params, "target_spacing", DefaultTargetSpacing),
                    Get(params, "resampling_fn_data_kwargs", DefaultDataKwargs))
    /\ UNCHANGED <<inputs, config, outputs>>

GS_Save ==
    /\ cmd = "synthetic" /\ pc = "save"
    /\ SaveStage
    /\ UNCHANGED <<inputs, error, locals, result>>

GS_SaveFail ==
    /\ cmd = "synthetic" /\ pc \in {"save", "metadata"}
    /\ Raise("OSError", "write", {}, {})
    /\ UNCHANGED <<inputs, locals, outputs>>

GS_WriteMetadata ==
    /\ cmd = "synthetic" /\ pc = "metadata"
    /\ WriteMetadata
    /\ UNCHANGED <<inputs, error, heap, current, spacing, transposed_spacing, config, stages,
                   captured, checksums>>

\* ------------------------------------------------------------------ inputs
Perms == { p \in [Axes -> Axes] : IsPermutation(p) }

\* The subsets of S with at most k elements.
RECURSIVE KSubsets(_, _)
KSubsets(S, k) ==
    IF k = 0 THEN {{}}
    ELSE LET T == KSubsets(S, k - 1) IN T \cup { t \cup {x} : t \in T, x \in S }

VolShapes == { Vec(a, b, c) : a \in 1..MaxDim, b \in 1..MaxDim, c \in 1..MaxDim }

\* The volume of shape s that holds v at the positions P and 0 elsewhere.
Volume(s, P, v) == [shape |-> s, data |-> [i \in Idx(s) |-> IF i \in P THEN Smp(v) ELSE Smp(0)]]

\* A volume of two samples.
Pair(x, y) ==
    [shape |-> Vec(1, 1, 2),
     data  |-> [i \in Idx(Vec(1, 1, 2)) |-> IF i[2] = 0 THEN Smp(x) ELSE Smp(y)]]

Nifti(d, zooms) == [name |-> "case.nii.gz", data |-> d, zooms |-> zooms]
NoNifti == Nifti([shape |-> Vec(0, 0, 0), data |-> EmptyDict], Vec(0, 0, 0))

BaseStats == [mean |-> 1, std |-> 2, percentile_00_5 |-> 0 - 2, percentile_99_5 |-> 2]

\* Channel "0" statistics: complete (a zero std, an empty clip window and a
\* reversed one among them) and incomplete.
FullStats ==
    { BaseStats,
      [mean |-> 0, std |-> 0, percentile_00_5 |-> 0 - 3, percentile_99_5 |-> 2],
      [mean |-> 0 - 1, std |-> 1, percentile_00_5 |-> 0, percentile_99_5 |-> 0],
      [mean |-> 2, std |-> 3, percentile_00_5 |-> 2, percentile_99_5 |-> 0 - 2] }
PartialStats ==
    { [mean |-> 1, percentile_00_5 |-> 0 - 2, percentile_99_5 |-> 2],
      [std |-> 2, percentile_00_5 |-> 0 - 2] }

\* The fingerprint's foreground_intensity_properties_per_channel, or none.
PerChannelParts ==
    { ("foreground_intensity_properties_per_channel" :> ("0" :> st)) :
          st \in FullStats \cup PartialStats }
    \cup { ("foreground_intensity_properties_per_channel" :> EmptyDict), EmptyDict }

BasePerChannel == ("foreground_intensity_properties_per_channel" :> ("0" :> BaseStats))

FpTail == [spacing |-> Vec(25, 7, 7), shapes_after_crop |-> <<Vec(2, 4, 4)>>]

SchemeLists ==
    { <<"CTNormalization">>, <<"ZScoreNormalization">>, <<"NoNormalization">>,
      <<"FooNormalization">> }

\* resampling_fn_data_kwargs of a configuration: absent, complete, partial,
\* or with an interpolation order the resampler does not support.
KwDataParts ==
    { EmptyDict,
      ("resampling_fn_data_kwargs" :>
          [is_seg |-> FALSE, order |-> 1, order_z |-> 0, force_separate_z |-> "True"]),
      ("resampling_fn_data_kwargs" :> [order |-> 1]),
      ("resampling_fn_data_kwargs" :>
          [is_seg |-> FALSE, order |-> 2, order_z |-> 0, force_separate_z |-> "None"]) }

KwSegParts ==
    { EmptyDict, ("resampling_fn_seg_kwargs" :> [is_seg |-> TRUE, order_z |-> 1]) }

Cfg(schemes, target, optional) ==
    [spacing |-> target, patch_size |-> Vec(2, 2, 2), normalization_schemes |-> schemes]
    @@ optional

\* A plan document with two configurations.
Plans(top, cfg) ==
    [configurations |-> ("3d_fullres" :> cfg
                         @@ "3d_lowres" :> Cfg(<<"NoNormalization">>, Vec(2, 2, 2), EmptyDict))]
    @@ top

InitWith(c, pl, fp, prm, name, nif) ==
    /\ cmd = c
    /\ plans = pl
    /\ fingerprint = fp
    /\ params = prm
    /\ configuration = name
    /\ nifti = nif
    /\ pc = (IF c = "extract" THEN "extract" ELSE IF c = "fixtures" THEN "load" ELSE "raw")
    /\ error = NoError
    /\ heap = << >>
    /\ current = NoArray
    /\ spacing = << >>
    /\ transposed_spacing = << >>
    /\ config = EmptyDict
    /\ stages = << >>
    /\ metadata = EmptyDict
    /\ checksums = EmptyDict
    /\ files = EmptyDict
    /\ result = EmptyDict
    /\ captured = << >>

\* generate_fixtures, with a transpose, on every volume of MaxDim x MaxDim x 2
\* samples of which at most MaxNonzero are nonzero.
InitCrop ==
    \E P \in KSubsets(Idx(Vec(MaxDim, MaxDim, 2)), MaxNonzero) :
        InitWith("fixtures",
                 Plans(("transpose_forward" :> Vec(2, 0, 1)),
                       Cfg(<<"CTNormalization">>, Vec(1, 1, 1), EmptyDict)),
                 BasePerChannel @@ FpTail, EmptyDict, "3d_fullres",
                 Nifti(Volume(Vec(MaxDim, MaxDim, 2), P, 3), Vec(1, 1, 1)))

\* generate_fixtures on every shape and every box in it: the volume is
\* nonzero at two opposite corners of the box.
InitBoxes ==
    \E s \in VolShapes :
    \E lo \in Idx(s) :
    \E hi \in { h \in Idx(s) : \A a \in Axes : lo[a] <= h[a] } :
        InitWith("fixtures",
                 Plans(EmptyDict, Cfg(<<"CTNormalization">>, Vec(1, 1, 1), EmptyDict)),
                 BasePerChannel @@ FpTail, EmptyDict, "3d_fullres",
                 Nifti(Volume(s, {lo, hi}, 0 - 3), Vec(2, 1, 1)))

\* generate_fixtures on every scheme list and every channel statistics.
InitNormalize ==
    \E x \in {0 - 4, 0, 3} :
    \E y \in {0 - 4, 0, 3} :
    \E schemes \in SchemeLists :
    \E pcp \in PerChannelParts :
        InitWith("fixtures", Plans(EmptyDict, Cfg(schemes, Vec(1, 1, 1), EmptyDict)),
                 pcp @@ FpTail, EmptyDict, "3d_fullres", Nifti(Pair(x, y), Vec(1, 1, 1)))

\* generate_fixtures on every transpose_forward (one of them no permutation)
\* and several input and target spacings.
InitResample ==
    \E s \in VolShapes :
    \E top \in { EmptyDict, ("transpose_forward" :> Vec(0, 0, 1)) }
               \cup { ("transpose_forward" :> p) : p \in Perms } :
    \E zooms \in { Vec(5, 1, 2), Vec(3, 2, 1) } :
    \E target \in { Vec(2, 2, 2), Vec(2, 1, 4) } :
        InitWith("fixtures", Plans(top, Cfg(<<"NoNormalization">>, target, EmptyDict)),
                 BasePerChannel @@ FpTail, EmptyDict, "3d_fullres",
                 Nifti(Volume(s, Idx(s), 3), zooms))

\* generate_fixtures on every resample kwargs, and on a configuration name
\* that the plan document may not have.
InitKwargs ==
    \E kw \in KwDataParts :
    \E name \in { "3d_fullres", "3d_cascade_fullres" } :
        InitWith("fixtures", Plans(EmptyDict, Cfg(<<"CTNormalization">>, Vec(1, 1, 1), kw)),
                 BasePerChannel @@ FpTail, EmptyDict, name, Nifti(Pair(3, 0), Vec(1, 1, 1)))

\* extract_preprocessing_params on every combination of optional fields.
InitExtract ==
    \E top1 \in { EmptyDict, ("transpose_forward" :> Vec(2, 0, 1)) } :
    \E top2 \in { EmptyDict, ("transpose_backward" :> Vec(1, 2, 0)) } :
    \E schemes \in SchemeLists :
    \E kwd \in KwDataParts :
    \E kws \in KwSegParts :
    \E mask \in { EmptyDict, ("use_mask_for_norm" :> <<TRUE>>) } :
    \E pcp \in PerChannelParts :
    \E tail \in { EmptyDict, FpTail } :
    \E name \in { "3d_fullres", "3d_cascade_fullres" } :
        InitWith("extract",
                 Plans(top1 @@ top2, Cfg(schemes, Vec(10, 5, 5), kwd @@ kws @@ mask)),
                 pcp @@ tail, EmptyDict, name, NoNifti)

\* Parameter documents written by hand: nothing but the name; a CT scheme
\* with no statistics, with some, with all; no statistics object at all; no
\* configuration name.
HandParams ==
    { [configuration_name |-> "3d_fullres"],
      [configuration_name |-> "3d_fullres", normalization_schemes |-> <<"CTNormalization">>,
       foreground_intensity_properties |-> EmptyDict],
      [configuration_name |-> "3d_fullres", normalization_schemes |-> <<"CTNormalization">>,
       foreground_intensity_properties |-> ("0" :> [mean |-> 1, percentile_00_5 |-> 0 - 2])],
      [configuration_name |-> "3d_fullres", normalization_schemes |-> <<"CTNormalization">>,
       foreground_intensity_properties |-> ("0" :> BaseStats)],
      [configuration_name |-> "3d_fullres", normalization_schemes |-> <<"CTNormalization">>],
      [normalization_schemes |-> <<"NoNormalization">>] }

\* generate_synthetic_fixtures on the documents extract_preprocessing_params
\* writes and on the hand-written ones.
InitSynthetic ==
    \/ \E prm \in HandParams :
           InitWith("synthetic", EmptyDict, EmptyDict, prm, "", NoNifti)
    \/ \E top \in { EmptyDict, ("transpose_forward" :> Vec(2, 0, 1)),
                    ("transpose_forward" :> Vec(0, 0, 1)) } :
       \E schemes \in SchemeLists :
       \E kwd \in KwDataParts :
       \E pcp \in PerChannelParts :
       \E tail \in { EmptyDict, FpTail } :
           InitWith("synthetic", EmptyDict, EmptyDict,
                    BuildParams(Plans(top, Cfg(schemes, Vec(10, 5, 5), kwd)),
                                pcp @@ tail, "3d_fullres"),
                    "", NoNifti)

Init == InitCrop \/ InitBoxes \/ InitNormalize \/ InitResample \/ InitKwargs \/ InitExtract \/ InitSynthetic

Next ==
    \/ EX_Extract \/ EX_Write
    \/ GF_Load \/ GF_Raw \/ GF_Transpose \/ GF_Crop \/ GF_Normalize \/ GF_Resample
    \/ GF_Save \/ GF_SaveFail \/ GF_WriteMetadata
    \/ GS_Raw \/ GS_Transpose \/ GS_Crop \/ GS_Normalize \/ GS_Resample
    \/ GS_Save \/ GS_SaveFail \/ GS_WriteMetadata

Spec == Init /\ [][Next]_vars

\* -------------------------------------------------- the transpose round trip
\* A volume whose samples are all different: each holds 1 + its C-order offset.
Ramp(s) ==
    [shape |-> s,
     data  |-> [i \in Idx(s) |-> Smp(1 + (i[0] * s[1] + i[1]) * s[2] + i[2])]]

\* A volume and a pair of permutations, before the first transpose.
InitRoundTrip ==
    \E s \in VolShapes :
    \E zooms \in { Vec(5, 1, 2), Vec(3, 2, 1) } :
    \E fw \in Perms :
    \E bw \in Perms :
        /\ cmd = "roundtrip"
        /\ plans = [transpose_forward |-> fw, transpose_backward |-> bw]
        /\ fingerprint = EmptyDict
        /\ params = EmptyDict
        /\ configuration = ""
        /\ nifti = Nifti(Ramp(s), zooms)
        /\ pc = "forward"
        /\ error = NoError
        /\ heap = <<Ramp(s).data>>
        /\ current = [buf |-> 1, shape |-> s, axes |-> Vec(0, 1, 2)]
        /\ spacing = zooms
        /\ transposed_spacing = << >>
        /\ config = EmptyDict
        /\ stages = << >>
        /\ metadata = EmptyDict
        /\ checksums = EmptyDict
        /\ files = EmptyDict
        /\ result = EmptyDict
        /\ captured = << >>

\* The transpose stage with transpose_forward.
RT_Forward ==
    /\ cmd = "roundtrip" /\ pc = "forward"
    /\ current' = TransposeVolume(current, spacing, plans["transpose_forward"]).array
    /\ transposed_spacing' = TransposeVolume(current, spacing, plans["transpose_forward"]).spacing
    /\ pc' = "backward"
    /\ UNCHANGED <<inputs, error, heap, spacing, config, stages, metadata, captured, outputs>>

\* The transpose stage again, with transpose_backward, on the transposed volume.
RT_Backward ==
    /\ cmd = "roundtrip" /\ pc = "backward"
    /\ current' = TransposeVolume(current, transposed_spacing, plans["transpose_backward"]).array
    /\ transposed_spacing' =
           TransposeVolume(current, transposed_spacing, plans["transpose_backward"]).spacing
    /\ pc' = "restored"
    /\ UNCHANGED <<inputs, error, heap, spacing, config, stages, metadata, captured, outputs>>

NextRoundTrip == RT_Forward \/ RT_Backward

SpecRoundTrip == InitRoundTrip /\ [][NextRoundTrip]_vars

\* ------------------------------------------------------------------ claims
StageNames == <<"01_raw", "02_transposed", "03_cropped", "04_normalized", "05_resampled">>

IsPipeline == cmd \in {"fixtures", "synthetic"}

\* What each pipeline function reads its parameters from.
RunSchemes ==
    IF cmd = "synthetic" THEN Get(params, "normalization_schemes", << >>)
    ELSE IF configuration \in DOMAIN plans["configurations"]
         THEN plans["configurations"][configuration]["normalization_schemes"]
         ELSE << >>
RunPerChannel ==
    IF cmd = "synthetic" THEN Get(params, "foreground_intensity_properties", EmptyDict)
    ELSE Get(fingerprint, "foreground_intensity_properties_per_channel", EmptyDict)
RunProps == Get(RunPerChannel, "0", EmptyDict)
RunMissing == { k \in {"mean", "std", "percentile_00_5", "percentile_99_5"} : k \notin DOMAIN RunProps }
RunCT == \E n \in DOMAIN RunSchemes : RunSchemes[n] = "CTNormalization"
RunForward ==
    IF cmd = "synthetic" THEN Get(params, "transpose_forward", Vec(0, 1, 2))
    ELSE Get(plans, "transpose_forward", Vec(0, 1, 2))
RunInputSpacing ==
    IF cmd = "synthetic" THEN Get(params, "original_spacing", DefaultOriginalSpacing)
    ELSE nifti.zooms
RunTargetSpacing ==
    IF cmd = "synthetic" THEN Get(params, "target_spacing", DefaultTargetSpacing)
    ELSE plans["configurations"][configuration]["spacing"]

Captured(n) == Len(captured) >= n

\* C1: the box reported for 03_cropped lies inside the stage-02 array and
\* contains the index of every nonzero stage-02 sample on every axis; the
\* cropped array is the stage-02 array restricted to the box; for an all-zero
\* array the box is (0, shape[a]) on every axis and the array is returned
\* whole; and the crop step never fails.
C1_CropContainment ==
    /\ (IsPipeline /\ pc = "failed") => Len(captured) # 2
    /\ (IsPipeline /\ Captured(3)) =>
        LET src == captured[2]
            out == captured[3]
            bbox == metadata["stages"]["03_cropped"]["bbox"]
        IN  /\ \A a \in Axes : 0 <= bbox[a][1] /\ bbox[a][1] < bbox[a][2]
                               /\ bbox[a][2] <= src.shape[a]
                               /\ out.shape[a] = bbox[a][2] - bbox[a][1]
            /\ \A i \in Idx(src.shape) :
                   src.data[i].num # 0 =>
                       \A a \in Axes : bbox[a][1] <= i[a] /\ i[a] < bbox[a][2]
            /\ \A j \in Idx(out.shape) :
                   out.data[j] = src.data[[a \in Axes |-> j[a] + bbox[a][1]]]
            /\ (\A i \in Idx(src.shape) : src.data[i].num = 0) =>
                   /\ \A a \in Axes : bbox[a] = <<0, src.shape[a]>>
                   /\ out = src

\* C1 witness: a crop that removed zero samples on some axis while a
\* negative sample stayed inside the box.
C1_Witness ==
    /\ IsPipeline /\ Captured(3)
    /\ \E a \in Axes : captured[3].shape[a] < captured[2].shape[a]
    /\ \E j \in Idx(captured[3].shape) : captured[3].data[j].num < 0

\* C2: with the CT scheme selected and the four channel-0 statistics given,
\* every 04_normalized sample y is (clip(x, p00_5, p99_5) - mean) / max(std,
\* 1e-8) of the 03_cropped sample x at the same index, the clip applied
\* first; for p00_5 <= p99_5 it lies between (p00_5 - mean) / max(std, 1e-8)
\* and (p99_5 - mean) / max(std, 1e-8); and the divisor is never zero.
C2_CTNormalization ==
    (IsPipeline /\ Captured(4) /\ RunCT /\ RunMissing = {}) =>
        LET lower == RunProps["percentile_00_5"]
            upper == RunProps["percentile_99_5"]
            mean == RunProps["mean"]
            divisor == IF RunProps["std"] > StdFloor THEN RunProps["std"] ELSE StdFloor
        IN  /\ captured[4].shape = captured[3].shape
            /\ \A i \in Idx(captured[3].shape) :
                   LET x == captured[3].data[i].num
                       raised == IF x < lower THEN lower ELSE x
                       clipped == IF raised > upper THEN upper ELSE raised
                       y == captured[4].data[i]
                   IN  /\ captured[3].data[i].den = 1
                       /\ y.den > 0
                       /\ y.num * divisor = (clipped - mean) * y.den
                       /\ lower <= upper =>
                              /\ (lower - mean) * y.den <= y.num * divisor
                              /\ y.num * divisor <= (upper - mean) * y.den

\* C2 witness: a normalized array under a std of 0 with one sample clipped
\* from above and one from below.
C2_Witness ==
    /\ IsPipeline /\ Captured(4) /\ RunCT /\ RunMissing = {}
    /\ RunProps["std"] = 0
    /\ \E i \in Idx(captured[3].shape) : captured[3].data[i].num > RunProps["percentile_99_5"]
    /\ \E i \in Idx(captured[3].shape) : captured[3].data[i].num < RunProps["percentile_00_5"]

\* n is p / q rounded to the nearest integer, a tie going to the even one.
IsRounded(n, p, q) ==
    LET twice == 2 * (p - n * q)
        dist == IF twice < 0 THEN 0 - twice ELSE twice
    IN  dist < q \/ (dist = q /\ n % 2 = 0)

\* C3: on each axis a the 05_resampled shape is round(shape[a] *
\* current_spacing[a] / target_spacing[a]), where shape is that of the array
\* entering the resample stage (the 03_cropped shape, kept by stage 04) and
\* current_spacing is the input spacing reordered by the forward permutation;
\* ties are rounded the same way (to even) on every axis and in every run.
C3_ResampleShape ==
    (IsPipeline /\ Captured(5)) =>
        /\ captured[4].shape = captured[3].shape
        /\ \A a \in Axes :
               IsRounded(captured[5].shape[a],
                         captured[4].shape[a] * RunInputSpacing[RunForward[a]],
                         RunTargetSpacing[a])

\* C3 witness: a resampled array after a transpose that moved axes, with a tie
\* on one axis and a shape that changed differently on two axes.
C3_Witness ==
    /\ IsPipeline /\ Captured(5)
    /\ RunForward # Vec(0, 1, 2)
    /\ \E a \in Axes :
           2 * ((captured[4].shape[a] * RunInputSpacing[RunForward[a]]) % RunTargetSpacing[a])
               = RunTargetSpacing[a]
    /\ \E a \in Axes : captured[5].shape[a] > captured[4].shape[a]
    /\ \E a \in Axes : captured[5].shape[a] < captured[4].shape[a]

\* C4: after one transpose the array holds at index j the input sample whose
\* coordinate along input axis forward[k] is j[k], and its spacing component
\* k is the input spacing of that axis; after the second transpose with a
\* backward permutation that is the inverse of forward, the array and the
\* spacing are the input's again.
C4_TransposeRoundTrip ==
    LET fw == plans["transpose_forward"]
        bw == plans["transpose_backward"]
    IN  /\ (cmd = "roundtrip" /\ pc = "backward") =>
            /\ \A k \in Axes : /\ current.shape[k] = nifti.data.shape[fw[k]]
                               /\ transposed_spacing[k] = nifti.zooms[fw[k]]
            /\ \A i \in Idx(nifti.data.shape) :
                   At(heap, current, [k \in Axes |-> i[fw[k]]]) = nifti.data.data[i]
        /\ (cmd = "roundtrip" /\ pc = "restored"
              /\ \A k \in Axes : fw[bw[k]] = k /\ bw[fw[k]] = k) =>
            /\ Dense(heap, current) = nifti.data
            /\ transposed_spacing = nifti.zooms

\* C4 witness: a round trip through a permutation that is not its own
\* inverse, on a volume with axes of different length and spacing.
C4_Witness ==
    /\ cmd = "roundtrip" /\ pc = "restored"
    /\ plans["transpose_forward"] = Vec(1, 2, 0)
    /\ plans["transpose_backward"] = Vec(2, 0, 1)
    /\ nifti.data.shape = Vec(1, 2, 2)
    /\ nifti.zooms = Vec(5, 1, 2)

\* C5: when the requested name is no key of the plan's configurations, the
\* run fails with an error that names the requested key and lists every
\* valid key, returns nothing and runs no stage; when it is a key, that
\* error is not raised.
C5_ConfigurationNotFound ==
    (cmd \in {"extract", "fixtures"} /\ pc \notin {"extract", "load"}) =>
        IF configuration \notin DOMAIN plans["configurations"]
        THEN /\ pc = "failed"
             /\ configuration \in error.names
             /\ error.available = DOMAIN plans["configurations"]
             /\ result = EmptyDict
             /\ stages = << >>
        ELSE error.what # "Configuration not found"

\* C6: with the CT scheme in the list and a channel-0 statistic missing, the
\* run is past the point that reads the statistics only as a failure whose
\* error names the missing fields, and no 04_normalized array exists.
C6_MissingStatisticsFatal ==
    (/\ cmd \in {"extract", "fixtures", "synthetic"}
     /\ cmd # "synthetic" => configuration \in DOMAIN plans["configurations"]
     /\ RunCT /\ RunMissing # {}) =>
        /\ ~Captured(4)
        /\ pc \notin {"write", "done", "resample", "save", "metadata"}
        /\ (pc = "failed" /\ (cmd = "extract" \/ Len(captured) = 3)) => error.names = RunMissing

SupportedSchemes == {"CTNormalization", "ZScoreNormalization", "NoNormalization"}

\* C7: with a scheme identifier in the list that is none of the supported
\* ones, no 04_normalized snapshot exists and a run that reached the
\* normalizer has failed there with an unsupported-normalization-scheme error.
C7_SchemeDispatchClosed ==
    (IsPipeline /\ \E n \in DOMAIN RunSchemes : RunSchemes[n] \notin SupportedSchemes) =>
        /\ ~Captured(4)
        /\ pc \notin {"resample", "save", "metadata", "done"}
        /\ (pc = "failed" /\ Len(captured) = 3) =>
               error.what = "UnsupportedNormalizationScheme"

\* The plan's kwargs, each absent field filled from the defaults.
Filled(kwargs, defaults) == [f \in DOMAIN defaults |-> Get(kwargs, f, defaults[f])]

\* C8: the returned parameter document has every optional field, the plan's
\* value where the plan gives one and the documented default otherwise, the
\* resample kwargs field by field; the source documents are unchanged.
C8_ResolvedDefaultFree ==
    (cmd = "extract" /\ pc \in {"write", "done"}) =>
        LET cfg == plans["configurations"][configuration] IN
        /\ result["transpose_forward"] = Get(plans, "transpose_forward", Vec(0, 1, 2))
        /\ result["transpose_backward"] = Get(plans, "transpose_backward", Vec(0, 1, 2))
        /\ result["anisotropy_threshold"] = 3
        /\ result["resampling_fn_data_kwargs"] =
               Filled(Get(cfg, "resampling_fn_data_kwargs", EmptyDict),
                      [is_seg |-> FALSE, order |-> 3, order_z |-> 0, force_separate_z |-> "None"])
        /\ result["resampling_fn_seg_kwargs"] =
               Filled(Get(cfg, "resampling_fn_seg_kwargs", EmptyDict),
                      [is_seg |-> TRUE, order |-> 1, order_z |-> 0, force_separate_z |-> "None"])

\* C9: a pipeline run that has ended leaves a stage file or the metadata
\* document behind only if it wrote all five stage arrays, all five
\* checksums and the metadata document; a failed run leaves nothing.
C9_NoPartialBundle ==
    (IsPipeline /\ pc \in {"failed", "done"} /\ DOMAIN files # {}) =>
        /\ pc = "done"
        /\ DOMAIN files = { StageNames[n] : n \in 1..5 } \cup {"fixture_metadata"}
        /\ DOMAIN checksums = { StageNames[n] : n \in 1..5 }

\* C10: the snapshots are captured once each in the order 01_raw ..
\* 05_resampled; 02 is 01 with the axes permuted, 03 is 02 restricted to the
\* reported box, 04 has the shape of 03; every snapshot still holds what it
\* held when it was captured, whatever storage it shares; and each file
\* written, and its checksum, is the float32 cast of the array as captured.
C10_SnapshotsWriteOnce ==
    IsPipeline =>
        /\ Len(stages) <= 5 /\ Len(captured) = Len(stages)
        /\ \A n \in 1..Len(stages) :
               /\ stages[n].name = StageNames[n]
               /\ Dense(heap, stages[n].array) = captured[n]
        /\ pc \in {"save", "metadata", "done"} => Len(stages) = 5
        /\ Captured(2) =>
               /\ \A k \in Axes : captured[2].shape[k] = captured[1].shape[RunForward[k]]
               /\ \A i \in Idx(captured[1].shape) :
                      captured[2].data[[k \in Axes |-> i[RunForward[k]]]] = captured[1].data[i]
        /\ Captured(3) =>
               captured[3] = CropSlice(captured[2], metadata["stages"]["03_cropped"]["bbox"])
        /\ Captured(4) => captured[4].shape = captured[3].shape
        /\ \A n \in 1..Len(stages) :
               StageNames[n] \in DOMAIN files =>
                   /\ files[StageNames[n]].dtype = "float32"
                   /\ files[StageNames[n]].shape = captured[n].shape
                   /\ files[StageNames[n]].data = captured[n].data
                   /\ StageNames[n] \in DOMAIN checksums
        /\ \A n \in 1..Len(stages) :
               StageNames[n] \in DOMAIN checksums =>
                   /\ StageNames[n] \in DOMAIN files
                   /\ Len(checksums[StageNames[n]].md5) =
                          captured[n].shape[0] * captured[n].shape[1] * captured[n].shape[2]
                   /\ \A i \in Idx(captured[n].shape) :
                          checksums[StageNames[n]].md5[
                              1 + (i[0] * captured[n].shape[1] + i[1]) * captured[n].shape[2] + i[2]]
                              = captured[n].data[i]

\* C10 witness: a finished bundle of an all-zero volume under a scheme other
\* than CT: the four first snapshots are one buffer.
C10_Witness ==
    /\ IsPipeline /\ pc = "done"
    /\ \A n \in 1..4 : stages[n].array.buf = stages[1].array.buf
    /\ DOMAIN files = { StageNames[n] : n \in 1..5 } \cup {"fixture_metadata"}

====
